---- MODULE Spec2Model ----
(***************************************************************************)
(* Model of src/src/lib.rs: the BigInt value type (decimal digits stored   *)
(* least-significant first, plus a sign tag) with from, to_string, add,    *)
(* sub and the helpers cmp_abs, sub_abs and normalize.                     *)
(*                                                                         *)
(* A string is a sequence of one-character strings.  The functions of the  *)
(* source are operators; the state machine is a caller that parses two     *)
(* texts and then chains add / sub calls on the parsed values.             *)
(***************************************************************************)
EXTENDS Integers, Sequences, FiniteSets

\* ------------------------------------------------------------------ bounds

\* Longest input text handed to from.
MaxLen == 3

\* Longest chain of add / sub calls made on one accumulator.
MaxOps == 2

\* Characters the input texts are drawn from: the sign marker, three digits
\* (no carry, carry-generating, zero) and one non-digit.
Alphabet == {"-", "0", "1", "9", "a"}

\* ---------------------------------------------------------- program constants

\* Radix of the stored digits (the literal 10 of the carry and borrow loops).
Base == 10

\* Number of values of the u8 digit type.
U8Modulus == 256

\* --------------------------------------------------------------- u8 helpers

\* Whether an intermediate fits the u8 digit type.
fits(n) == n >= 0 /\ n < U8Modulus

\* The value a release build keeps after an u8 operation (wrap-around).
wrap(n) == n % U8Modulus

\* --------------------------------------------------------------- the type

Positive == "Positive"
Negative == "Negative"

\* BigInt::new(): no digits, sign Positive.
new == [digits |-> <<>>, sign |-> Positive]

\* Result and Option values.
Ok(v) == [tag |-> "Ok", val |-> v]
Err(e) == [tag |-> "Err", err |-> e]
None == [tag |-> "None"]
Some(v) == [tag |-> "Some", val |-> v]

\* ---------------------------------------------------------------- parsing

DigitChars == <<"0", "1", "2", "3", "4", "5", "6", "7", "8", "9">>

\* char::to_digit(10): the digit's value, or None for any other character.
to_digit(c) ==
  IF \E i \in 1..Len(DigitChars) : DigitChars[i] = c
  THEN Some((CHOOSE i \in 1..Len(DigitChars) : DigitChars[i] = c) - 1)
  ELSE None

\* Iterator::rev().
rev(q) == [i \in 1..Len(q) |-> q[Len(q) + 1 - i]]

\* from with the digits kept in reading order (the rev() left out).
from_unreversed(s) ==
  IF s = <<>> THEN Err("Invalid argument")
  ELSE LET neg == Head(s) = "-"
           digits_start == IF neg THEN 1 ELSE 0
           chars == SubSeq(s, digits_start + 1, Len(s))
       IN IF \E i \in 1..Len(chars) : to_digit(chars[i]) = None
          THEN Err("Invalid digit")
          ELSE Ok([digits |-> [i \in 1..Len(chars) |-> to_digit(chars[i]).val],
                   sign |-> IF neg THEN Negative ELSE Positive])

\* BigInt::from(s).
from(s) ==
  IF s = <<>> THEN Err("Invalid argument")
  ELSE LET neg == Head(s) = "-"
           digits_start == IF neg THEN 1 ELSE 0
           chars == rev(SubSeq(s, digits_start + 1, Len(s)))
       IN IF \E i \in 1..Len(chars) : to_digit(chars[i]) = None
          THEN Err("Invalid digit")
          ELSE Ok([digits |-> [i \in 1..Len(chars) |-> to_digit(chars[i]).val],
                   sign |-> IF neg THEN Negative ELSE Positive])

\* -------------------------------------------------------------- rendering

\* u8::to_string(): the decimal text of one stored element.
RECURSIVE u8_to_string(_)
u8_to_string(d) ==
  IF d < Base THEN <<DigitChars[d + 1]>>
  ELSE u8_to_string(d \div Base) \o <<DigitChars[(d % Base) + 1]>>

\* join(""): concatenation of the element texts.
RECURSIVE join(_)
join(q) == IF q = <<>> THEN <<>> ELSE Head(q) \o join(Tail(q))

\* to_string with the sign prefix left out.
to_string_no_sign(v) ==
  LET digits_str == join([i \in 1..Len(v.digits) |-> u8_to_string(rev(v.digits)[i])])
  IN IF digits_str = <<>> THEN <<"0">> ELSE digits_str

\* BigInt::to_string(&self).
to_string(v) ==
  LET sign_str == IF v.sign = Negative THEN <<"-">> ELSE <<>>
      digits_str == join([i \in 1..Len(v.digits) |-> u8_to_string(rev(v.digits)[i])])
  IN IF digits_str = <<>> THEN <<"0">> ELSE sign_str \o digits_str

\* ---------------------------------------------------------------- helpers

\* BigInt::normalize(&mut self), on the digit sequence.
RECURSIVE normalize(_)
normalize(d) ==
  IF d # <<>> /\ d[Len(d)] = 0 THEN normalize(SubSeq(d, 1, Len(d) - 1)) ELSE d

Less == "Less"
Equal == "Equal"
Greater == "Greater"

\* Ord::cmp on two numbers.
cmp(m, n) == IF m < n THEN Less ELSE IF m > n THEN Greater ELSE Equal

\* BigInt::cmp_abs(&self, other).
cmp_abs(self, other) ==
  IF cmp(Len(self.digits), Len(other.digits)) # Equal
  THEN cmp(Len(self.digits), Len(other.digits))
  ELSE LET differ == {i \in 1..Len(self.digits) : self.digits[i] # other.digits[i]}
       IN IF differ = {} THEN Equal
          ELSE LET top == CHOOSE i \in differ : \A j \in differ : j <= i
               IN cmp(self.digits[top], other.digits[top])

\* The borrow loop with the `*a += 10` of a borrowing position left out.
RECURSIVE sub_loop_no_borrow_add(_, _, _, _, _)
sub_loop_no_borrow_add(res, od, i, borrow, ovf) ==
  IF i > Len(res) THEN [digits |-> res, ovf |-> ovf]
  ELSE LET b0 == IF i <= Len(od) THEN od[i] ELSE 0
           b1 == b0 + borrow
           b == wrap(b1)
           lt == res[i] < b
           a2 == res[i] - b
       IN sub_loop_no_borrow_add([res EXCEPT ![i] = wrap(a2)], od, i + 1,
                                 IF lt THEN 1 ELSE 0,
                                 ovf \/ ~fits(b1) \/ ~fits(a2))

\* The borrow loop of sub_abs over positions i..Len(res): the digits after
\* the loop, and whether an u8 intermediate left 0..255 on the way.
RECURSIVE sub_loop(_, _, _, _, _)
sub_loop(res, od, i, borrow, ovf) ==
  IF i > Len(res) THEN [digits |-> res, ovf |-> ovf]
  ELSE LET b0 == IF i <= Len(od) THEN od[i] ELSE 0
           b1 == b0 + borrow
           b == wrap(b1)
           lt == res[i] < b
           a1 == IF lt THEN res[i] + Base ELSE res[i]
           a2 == wrap(a1) - b
       IN sub_loop([res EXCEPT ![i] = wrap(a2)], od, i + 1,
                   IF lt THEN 1 ELSE 0,
                   ovf \/ ~fits(b1) \/ ~fits(a1) \/ ~fits(a2))

\* The loop at the end of sub_abs that pops high-order zero digits.
RECURSIVE pop_zeros(_)
pop_zeros(d) ==
  IF d # <<>> /\ d[Len(d)] = 0 THEN pop_zeros(SubSeq(d, 1, Len(d) - 1)) ELSE d

\* BigInt::sub_abs(&self, other): a clone of self (its sign included) with
\* the digits of |self| - |other|.
sub_abs(self, other) ==
  LET r == sub_loop(self.digits, other.digits, 1, 0, FALSE)
  IN [val |-> [digits |-> pop_zeros(r.digits), sign |-> self.sign], ovf |-> r.ovf]

\* Vec::resize(n, 0).
resize(d, n) ==
  IF n <= Len(d) THEN SubSeq(d, 1, n)
  ELSE d \o [i \in 1..(n - Len(d)) |-> 0]

\* The resize length taken from self alone (the max with b left out).
add_len_self(self, b) == Len(self.digits) + 1

\* The length add resizes its result to.
add_len(self, b) ==
  (IF Len(self.digits) >= Len(b.digits) THEN Len(self.digits) ELSE Len(b.digits)) + 1

\* The carry loop with the carry never set.
RECURSIVE add_loop_drop_carry(_, _, _, _, _)
add_loop_drop_carry(res, bd, i, carry, ovf) ==
  IF i > Len(res) THEN [digits |-> res, carry |-> carry, ovf |-> ovf]
  ELSE LET b0 == IF i <= Len(bd) THEN bd[i] ELSE 0
           t == b0 + carry
           a1 == res[i] + wrap(t)
           ge == wrap(a1) >= Base
           a2 == IF ge THEN wrap(a1) - Base ELSE wrap(a1)
       IN add_loop_drop_carry([res EXCEPT ![i] = a2], bd, i + 1, 0,
                              ovf \/ ~fits(t) \/ ~fits(a1))

\* The carry loop of add over positions i..Len(res).
RECURSIVE add_loop(_, _, _, _, _)
add_loop(res, bd, i, carry, ovf) ==
  IF i > Len(res) THEN [digits |-> res, carry |-> carry, ovf |-> ovf]
  ELSE LET b0 == IF i <= Len(bd) THEN bd[i] ELSE 0
           t == b0 + carry
           a1 == res[i] + wrap(t)
           ge == wrap(a1) >= Base
           a2 == IF ge THEN wrap(a1) - Base ELSE wrap(a1)
       IN add_loop([res EXCEPT ![i] = a2], bd, i + 1,
                   IF ge THEN 1 ELSE 0,
                   ovf \/ ~fits(t) \/ ~fits(a1))

\* The same-sign arm of add: magnitude addition, the sign of self kept.
add_abs(self, b) ==
  LET r == add_loop(resize(self.digits, add_len(self, b)), b.digits, 1, 0, FALSE)
      pushed == IF r.carry > 0 THEN Append(r.digits, r.carry) ELSE r.digits
  IN [val |-> [digits |-> normalize(pushed), sign |-> self.sign], ovf |-> r.ovf]

\* ------------------------------------------------------------ add and sub

\* One entry of a call chain: the function entered and its operands' signs.
Frame(fn, self, b) == [fn |-> fn, self |-> self.sign, b |-> b.sign]

\* What a call returns: the value, whether an u8 intermediate overflowed, and
\* the chain of calls made (this call first, then the calls it delegated to).
Direct(fn, self, b, r) == [val |-> r.val, ovf |-> r.ovf, calls |-> <<Frame(fn, self, b)>>]
Delegated(fn, self, b, r) == [r EXCEPT !.calls = <<Frame(fn, self, b)>> \o r.calls]

\* The operand of a mixed-sign sub handed to add as a Positive value.
sub_neg_pos_sign_flipped == Positive

\* The sign a mixed-sign sub gives the operand it hands to add.
sub_neg_pos_sign == Negative

WithSign(v, sg) == [v EXCEPT !.sign = sg]
Abs(v) == [sign |-> Positive, digits |-> v.digits]

RECURSIVE add(_, _), sub(_, _)

\* BigInt::add(&self, b).
add(self, b) ==
  IF self.sign = b.sign THEN Direct("add", self, b, add_abs(self, b))
  ELSE IF self.sign = Positive
       THEN Delegated("add", self, b, sub(self, Abs(b)))
       ELSE Delegated("add", self, b, sub(b, Abs(self)))

\* The Less arm of sub for two Negative operands.
sub_neg_neg_less(self, b) == sub_abs(b, self)

\* BigInt::sub(&self, b).
sub(self, b) ==
  LET zero == [val |-> new, ovf |-> FALSE]
      neg(r) == [r EXCEPT !.val = WithSign(r.val, Negative)]
  IN CASE self.sign = Positive /\ b.sign = Positive ->
            Direct("sub", self, b,
                   CASE cmp_abs(self, b) = Greater -> sub_abs(self, b)
                     [] cmp_abs(self, b) = Equal -> zero
                     [] cmp_abs(self, b) = Less -> neg(sub_abs(b, self)))
       [] self.sign = Positive /\ b.sign = Negative ->
            Delegated("sub", self, b, add(self, Abs(b)))
       [] self.sign = Negative /\ b.sign = Positive ->
            neg(Delegated("sub", self, b, add(self, WithSign(b, sub_neg_pos_sign))))
       [] self.sign = Negative /\ b.sign = Negative ->
            Direct("sub", self, b,
                   CASE cmp_abs(self, b) = Greater -> neg(sub_abs(self, b))
                     [] cmp_abs(self, b) = Equal -> zero
                     [] cmp_abs(self, b) = Less -> sub_neg_neg_less(self, b))

\* ------------------------------------------------------------ the caller

VARIABLES
  s,     \* the text of the left operand, empty before it is given
  t,     \* the text of the right operand, empty before it is given
  ps,    \* what from(s) returned, None before the call
  pt,    \* what from(t) returned, None before the call
  acc,   \* the value the caller holds: from(s) unwrapped, then each result
  call,  \* the last add / sub call: operands, result, overflow flag, chain
  ops    \* the add / sub calls made so far, oldest first

vars == <<s, t, ps, pt, acc, call, ops>>

\* Texts of at most n characters.
RECURSIVE TextsUpTo(_)
TextsUpTo(n) ==
  IF n = 0 THEN {<<>>}
  ELSE LET shorter == TextsUpTo(n - 1)
       IN shorter \cup {Append(x, c) : x \in {y \in shorter : Len(y) = n - 1}, c \in Alphabet}

Texts == TextsUpTo(MaxLen)

NoCall == [op |-> "none"]

Init ==
  /\ s = <<>>
  /\ t = <<>>
  /\ ps = None
  /\ pt = None
  /\ acc = None
  /\ call = NoCall
  /\ ops = <<>>

\* BigInt::from(s).unwrap(): the result of from is kept; an Ok value is
\* unwrapped into the accumulator, an Err value ends the run (unwrap panics).
ParseS ==
  /\ ps = None
  /\ \E x \in Texts :
       /\ s' = x
       /\ ps' = from(x)
       /\ acc' = IF from(x).tag = "Ok" THEN Some(from(x).val) ELSE None
  /\ UNCHANGED <<t, pt, call, ops>>

\* BigInt::from(t).unwrap(), evaluated once the left operand is there.
ParseT ==
  /\ ps.tag = "Ok"
  /\ pt = None
  /\ \E x \in Texts :
       /\ t' = x
       /\ pt' = from(x)
  /\ UNCHANGED <<s, ps, acc, call, ops>>

Record(op, a, b, r) ==
  [op |-> op, a |-> a, b |-> b, res |-> r.val, ovf |-> r.ovf, calls |-> r.calls]

\* acc = acc.add(&b)
Add ==
  /\ acc # None
  /\ pt.tag = "Ok"
  /\ Len(ops) < MaxOps
  /\ LET r == add(acc.val, pt.val)
     IN /\ acc' = Some(r.val)
        /\ call' = Record("add", acc.val, pt.val, r)
  /\ ops' = Append(ops, "add")
  /\ UNCHANGED <<s, t, ps, pt>>

\* acc = acc.sub(&b)
Sub ==
  /\ acc # None
  /\ pt.tag = "Ok"
  /\ Len(ops) < MaxOps
  /\ LET r == sub(acc.val, pt.val)
     IN /\ acc' = Some(r.val)
        /\ call' = Record("sub", acc.val, pt.val, r)
  /\ ops' = Append(ops, "sub")
  /\ UNCHANGED <<s, t, ps, pt>>

\* acc = b.add(&acc)
AddTo ==
  /\ acc # None
  /\ pt.tag = "Ok"
  /\ Len(ops) < MaxOps
  /\ LET r == add(pt.val, acc.val)
     IN /\ acc' = Some(r.val)
        /\ call' = Record("add", pt.val, acc.val, r)
  /\ ops' = Append(ops, "add_to")
  /\ UNCHANGED <<s, t, ps, pt>>

\* acc = b.sub(&acc)
SubFrom ==
  /\ acc # None
  /\ pt.tag = "Ok"
  /\ Len(ops) < MaxOps
  /\ LET r == sub(pt.val, acc.val)
     IN /\ acc' = Some(r.val)
        /\ call' = Record("sub", pt.val, acc.val, r)
  /\ ops' = Append(ops, "sub_from")
  /\ UNCHANGED <<s, t, ps, pt>>

Next == ParseS \/ ParseT \/ Add \/ Sub \/ AddTo \/ SubFrom

Spec == Init /\ [][Next]_vars

\* ------------------------------------------------- what the values denote

\* The natural number a digit sequence denotes (least-significant first).
RECURSIVE DigitsValue(_)
DigitsValue(d) == IF d = <<>> THEN 0 ELSE Head(d) + Base * DigitsValue(Tail(d))

\* The integer a BigInt denotes.
IntOf(v) == IF v.sign = Negative THEN 0 - DigitsValue(v.digits) ELSE DigitsValue(v.digits)

DigitCharSet == {DigitChars[i] : i \in 1..Len(DigitChars)}
CharValue(c) == CHOOSE d \in 0..9 : DigitChars[d + 1] = c

\* The characters after the optional leading sign marker.
Body(txt) == IF txt # <<>> /\ Head(txt) = "-" THEN Tail(txt) ELSE txt

\* Canonical decimal text: "0", or an optional '-' and digits, the first not '0'.
Canonical(txt) ==
  \/ txt = <<"0">>
  \/ /\ Body(txt) # <<>>
     /\ \A i \in 1..Len(Body(txt)) : Body(txt)[i] \in DigitCharSet
     /\ Head(Body(txt)) # "0"

\* The integer a canonical text denotes, read most-significant digit first.
RECURSIVE NatOfText(_)
NatOfText(body) ==
  IF body = <<>> THEN 0
  ELSE Base * NatOfText(SubSeq(body, 1, Len(body) - 1)) + CharValue(body[Len(body)])

TextValue(txt) ==
  IF txt # <<>> /\ Head(txt) = "-" THEN 0 - NatOfText(Body(txt)) ELSE NatOfText(Body(txt))

\* The canonical decimal text of an integer.
RECURSIVE NatText(_)
NatText(n) ==
  IF n < Base THEN <<DigitChars[n + 1]>>
  ELSE NatText(n \div Base) \o <<DigitChars[(n % Base) + 1]>>

IntText(n) == IF n < 0 THEN <<"-">> \o NatText(0 - n) ELSE NatText(n)

Normalized(v) == v.digits = <<>> \/ v.digits[Len(v.digits)] # 0

\* Every BigInt the caller holds: the parsed operands and the accumulator.
Held ==
  {p.val : p \in {q \in {ps, pt} : q.tag = "Ok"}}
    \cup (IF acc.tag = "Some" THEN {acc.val} ELSE {})

\* ------------------------------------------------------------- the claims

\* C1: subtraction inverts addition: for canonical texts s and t,
\* render(subtract(add(parse(s), parse(t)), parse(t))) is render(parse(s)).
SubInvertsAdd ==
  (ops = <<"add", "sub">> /\ Canonical(s) /\ Canonical(t))
    => to_string(acc.val) = to_string(ps.val)

\* C2: add computes the mathematical sum: for canonical texts s and t,
\* render(add(parse(s), parse(t))) is the canonical decimal text of s + t.
AddIsSum ==
  (ops = <<"add">> /\ Canonical(s) /\ Canonical(t))
    => to_string(acc.val) = IntText(TextValue(s) + TextValue(t))

\* A carry that runs through every position and lengthens the result.
AddIsSumWitness ==
  /\ ops = <<"add">>
  /\ s = <<"9", "9", "9">>
  /\ t = <<"1">>
  /\ to_string(acc.val) = <<"1", "0", "0", "0">>

\* C3: add is commutative: add(a, b) and add(b, a) are the same BigInt, sign
\* tag and digit sequence alike, for every pair of operands add is called on.
AddCommutes ==
  call.op = "add" => add(call.b, call.a).val = call.res

\* A mixed-sign call on two parsed values of different lengths.
AddCommutesWitness ==
  /\ ops = <<"add">>
  /\ s = <<"-", "1", "0">>
  /\ t = <<"9">>
  /\ call.res = [digits |-> <<1>>, sign |-> Negative]
  /\ add(call.b, call.a).val = call.res

\* C4: parse then render is the identity on canonical decimal text, and
\* parse succeeds on it.
RoundTrip ==
  /\ (ps # None /\ Canonical(s)) => (ps.tag = "Ok" /\ to_string(ps.val) = s)
  /\ (pt # None /\ Canonical(t)) => (pt.tag = "Ok" /\ to_string(pt.val) = t)

RoundTripWitness ==
  /\ s = <<"-", "1", "9">>
  /\ ps.tag = "Ok"
  /\ to_string(ps.val) = s
  /\ t = <<"0">>
  /\ pt.tag = "Ok"
  /\ to_string(pt.val) = t

\* What C5 says from(txt) returns.
ParsedAsClaimed(txt, p) ==
  LET body == Body(txt)
      bad == \E i \in 1..Len(body) : body[i] \notin DigitCharSet
  IN /\ p.tag \in {"Ok", "Err"}
     /\ (p = Err("Invalid argument")) <=> (txt = <<>>)
     /\ (p = Err("Invalid digit")) <=> (txt # <<>> /\ bad)
     /\ (txt # <<>> /\ ~bad) =>
          /\ p.tag = "Ok"
          /\ p.val.sign \in {Positive, Negative}
          /\ (p.val.sign = Negative) <=> (Head(txt) = "-")
          /\ Len(p.val.digits) = Len(body)
          /\ \A i \in 1..Len(body) : p.val.digits[i] = CharValue(body[Len(body) + 1 - i])

\* C5: parse fails with InvalidArgument exactly on the empty text, with
\* InvalidDigit exactly when a character after the optional leading '-' is no
\* digit, and otherwise succeeds with sign Negative exactly when the text
\* starts with '-' and with the reversed digit values.
ParseErrors ==
  /\ ps # None => ParsedAsClaimed(s, ps)
  /\ pt # None => ParsedAsClaimed(t, pt)

\* One text of each kind: a bare sign marker accepted, a bad digit refused.
ParseErrorsWitness ==
  /\ s = <<"-">>
  /\ ps = Ok([digits |-> <<>>, sign |-> Negative])
  /\ t = <<"-", "1", "a">>
  /\ pt = Err("Invalid digit")

\* C6: a held value that denotes zero renders as "0".
ZeroRendersUnsigned ==
  \A v \in Held : IntOf(v) = 0 => to_string(v) = <<"0">>

\* C7: add and sub never fail: no u8 intermediate of the carry or borrow loop
\* leaves 0..255, and every digit of the result is in 0..9.
Total ==
  call.op # "none" =>
    /\ ~call.ovf
    /\ call.res.sign \in {Positive, Negative}
    /\ \A i \in 1..Len(call.res.digits) : call.res.digits[i] \in 0..9

\* A borrow that runs off the top of a non-normalized operand.
TotalWitness ==
  /\ s = <<"0", "0", "1">>
  /\ t = <<"9">>
  /\ call.op = "sub"
  /\ ops = <<"sub">>
  /\ call.res.digits = <<2, 9, 9>>
  /\ ~call.ovf

\* C8: subtract on two normalized Negative operands: magnitude |a|-|b| and
\* sign Negative when |a| > |b|, zero when equal, magnitude |b|-|a| and sign
\* Positive when |a| < |b|.
SubNegNeg ==
  (/\ call.op = "sub"
   /\ call.a.sign = Negative
   /\ call.b.sign = Negative
   /\ Normalized(call.a)
   /\ Normalized(call.b))
    => LET ma == DigitsValue(call.a.digits)
           mb == DigitsValue(call.b.digits)
           mr == DigitsValue(call.res.digits)
       IN /\ ma > mb => (mr = ma - mb /\ call.res.sign = Negative)
          /\ ma = mb => mr = 0
          /\ ma < mb => (mr = mb - ma /\ call.res.sign = Positive)

\* C9: every held value is normalized: no zero as its high-order digit.
AlwaysNormalized ==
  \A v \in Held : Normalized(v)

SameSign(f) == f.self = f.b

\* C10: a call chain has at most two calls: a same-sign call computes its
\* result directly, a mixed-sign add delegates once to sub on two Positive
\* operands, a mixed-sign sub delegates once to add on same-signed operands.
DelegationDepth ==
  call.op # "none" =>
    LET c == call.calls
    IN /\ Len(c) \in {1, 2}
       /\ c[1].fn = call.op
       /\ c[1].self = call.a.sign
       /\ c[1].b = call.b.sign
       /\ (Len(c) = 1) <=> SameSign(c[1])
       /\ Len(c) = 2 =>
            /\ c[2].fn # c[1].fn
            /\ SameSign(c[2])
            /\ c[1].fn = "add" => (c[2].self = Positive /\ c[2].b = Positive)

\* A Negative value minus a Positive one, handed to add as two Negatives.
DelegationDepthWitness ==
  /\ call.op = "sub"
  /\ call.a.sign = Negative
  /\ call.b.sign = Positive
  /\ call.calls = <<[fn |-> "sub", self |-> Negative, b |-> Positive],
                    [fn |-> "add", self |-> Negative, b |-> Negative]>>

====
